---- MODULE Spec2Model ----
(***************************************************************************)
(* A model of volatility/plugins/windows/procdump.py: the PE image         *)
(* reconstructor PEDump.WritePEFile and the commands that drive it         *)
(* (PEDump, ProcExeDump, DLLDump, ModDump), and the section remapper       *)
(* ProcMemDump.get_image.                                                  *)
(*                                                                         *)
(* One behaviour is one run of one command.  Init chooses the command and  *)
(* its inputs; every action is one handler or one iteration of a render    *)
(* loop, with every call it makes included.                                *)
(***************************************************************************)
EXTENDS Integers, Sequences, FiniteSets, TLC

VARIABLES
    plugin,          \* the command that runs: "pedump", "procdump", "dlldump", "moddump", "procmemdump"
    input,           \* the command's constructor arguments and what its collaborators enumerate
    pc,              \* "start", "loop", "done" (render returned) or "raised" (an exception left render)
    error,           \* the exception that left the run, "" when none
    idx,             \* position of the outer loop (task, driver or section), 1-based
    midx,            \* position of DLLDump's inner loop over a task's modules, 1-based
    outfd,           \* the diagnostic stream: the lines written so far
    fd,              \* the caller-supplied output sink (PEDump.out_fd, ProcExeDump.fd)
    files,           \* the artifacts created in dump_dir: file name -> sink
    last,            \* history: the latest WritePEFile call, its arguments and its result
    dumped,          \* history: the targets WritePEFile was called for, in order
    address_spaces,  \* ModDump.address_spaces: None (built FALSE) or the candidate list
    finds,           \* history: ModDump.find_space calls so far, with list builds and results
    emitted          \* ProcMemDump.get_image: what the generator has yielded so far

vars == <<plugin, input, pc, error, idx, midx, outfd, fd, files, last, dumped,
          address_spaces, finds, emitted>>

----------------------------------------------------------------------------
(* Bounds of the model.                                                    *)

MaxSections == 2
MaxTasks == 2

(* The maxima WritePEFile forces on header-declared values.                *)
HeaderMax == 1000000
SectionMax == 10000000
OffsetMax == 100000000

Min(a, b) == IF a <= b THEN a ELSE b
Max(a, b) == IF a >= b THEN a ELSE b
SetMax(S) == CHOOSE x \in S : \A y \in S : y <= x
SeqUpTo(S, n) == UNION {[1..k -> S] : k \in 0..n}
Range(s) == {s[k] : k \in DOMAIN s}

----------------------------------------------------------------------------
(* Byte strings.  A byte string is kept as its length and its non-zero     *)
(* bytes (position -> byte, positions from 0): two byte strings are equal  *)
(* iff the records are.  A 10,000,000 byte read of unmapped memory is      *)
(* [len |-> 10000000, nz |-> <<>>].                                        *)

EmptyMap == [p \in {} |-> 0]

(* An address space: the addresses it maps, and what the PE profile        *)
(* decodes at each image base in it.  A mapped byte is a function of the   *)
(* address space and the address, never zero.                              *)
MemByte(as, a) == IF a \in as.valid THEN 16 * as.id + a + 1 ELSE 0

(* address_space.zread(addr, length): always `length` bytes, zero where    *)
(* the address is not mapped.                                              *)
zread(as, addr, length) ==
    LET hit == {a \in as.valid : a >= addr /\ a < addr + length}
    IN [len |-> length, nz |-> [k \in {a - addr : a \in hit} |-> MemByte(as, addr + k)]]

is_valid_address(as, a) == a \in as.valid

----------------------------------------------------------------------------
(* The output sink: a seekable file.  ops counts the seeks and writes      *)
(* made on it; the bad-th of them fails (0: none does).                    *)

NewFile(bad) == [pos |-> 0, len |-> 0, nz |-> EmptyMap, ops |-> 0, bad |-> bad]

FileSeek(f, off) == [f EXCEPT !.pos = off, !.ops = @ + 1]

FileWrite(f, data) ==
    LET keep == {p \in DOMAIN f.nz : p < f.pos \/ p >= f.pos + data.len}
        new == {f.pos + k : k \in DOMAIN data.nz}
    IN [f EXCEPT !.nz = [p \in keep \cup new |->
                            IF p \in new THEN data.nz[p - f.pos] ELSE f.nz[p]],
                 !.len = IF data.len = 0 THEN @ ELSE Max(@, f.pos + data.len),
                 !.pos = @ + data.len,
                 !.ops = @ + 1]

Call(op, a, n) == [op |-> op, a |-> a, n |-> n]

(* fd.seek(off) and fd.write(data) inside WritePEFile: r is the call so    *)
(* far; once an operation has raised nothing more happens.                 *)
DoSeek(r, off) ==
    IF r.raised THEN r
    ELSE IF r.fd.ops + 1 = r.fd.bad
         THEN [r EXCEPT !.raised = TRUE, !.fd.ops = @ + 1]
         ELSE [r EXCEPT !.fd = FileSeek(@, off),
                        !.calls = Append(@, Call("seek", off, 0))]

DoWrite(r, data) ==
    IF r.raised THEN r
    ELSE IF r.fd.ops + 1 = r.fd.bad
         THEN [r EXCEPT !.raised = TRUE, !.fd.ops = @ + 1]
         ELSE [r EXCEPT !.calls = Append(@, Call("write", r.fd.pos, data.len)),
                        !.fd = FileWrite(@, data)]

DoRead(r, as, addr, length) ==
    IF r.raised THEN r
    ELSE [r EXCEPT !.calls = Append(@, Call("zread", addr, length))]

----------------------------------------------------------------------------
(* PEDump.WritePEFile                                                      *)

(* pe_profile.Object("_IMAGE_DOS_HEADER", offset, vm): the decoded header  *)
(* at image_base; its obj_offset is the offset it was created at.          *)
DosHeader(as, image_base) ==
    [obj_offset |-> image_base, obj_vm |-> as, NTHeader |-> as.pe[image_base]]

header_length(nt_header) == Min(HeaderMax, nt_header.SizeOfHeaders)

(* size_of_section as it would be without the maximum.                     *)
size_of_section_NoClamp(section) == section.SizeOfRawData
size_of_section(section) == Min(SectionMax, section.SizeOfRawData)

physical_offset(section) == Min(OffsetMax, section.PointerToRawData)

(* section_address as it would be if the image base were left out.        *)
section_address_NoBase(section, image_base) == section.VirtualAddress
section_address(section, image_base) == section.VirtualAddress + image_base

(* `if not data: return`, and what it would be without the return.         *)
HeaderIsEmpty_Never(data) == FALSE
HeaderIsEmpty(data) == data.len = 0

RECURSIVE WriteSections(_, _, _, _, _)
WriteSections(r, as, image_base, sections, k) ==
    IF r.raised \/ k > Len(sections) THEN r
    ELSE LET section == sections[k]
             addr == section_address(section, image_base)
             data == zread(as, addr, size_of_section(section))
         IN WriteSections(
                DoWrite(DoSeek(DoRead(r, as, addr, data.len), physical_offset(section)), data),
                as, image_base, sections, k + 1)

WritePEFile(f, address_space, base) ==
    LET dos_header == DosHeader(address_space, base)
        image_base == dos_header.obj_offset
        nt_header == dos_header.NTHeader
        data == zread(dos_header.obj_vm, image_base, header_length(nt_header))
        r0 == [fd |-> f, calls |-> <<Call("zread", image_base, data.len)>>, raised |-> FALSE]
    IN IF HeaderIsEmpty(data) THEN r0
       ELSE WriteSections(DoWrite(DoSeek(r0, 0), data),
                          address_space, image_base, nt_header.Sections, 1)

(* The record of a call kept in `last`.                                    *)
CallRecord(f, as, base, r) ==
    [called |-> TRUE, fd0 |-> f, as |-> as, base |-> base, r |-> r]

----------------------------------------------------------------------------
(* What the commands write.                                                *)

Line(kind, t, m) == [kind |-> kind, t |-> t, m |-> m]

NoCall == [called |-> FALSE, fd0 |-> NewFile(0),
           as |-> [id |-> 0, none |-> TRUE, valid |-> {}, pe |-> <<>>], base |-> 0,
           r |-> [fd |-> NewFile(0), calls |-> <<>>, raised |-> FALSE]]

(* An exception of the sink leaves WritePEFile and, no handler being in    *)
(* any render loop, the loop and render itself.                            *)
(* raises_Swallowed: what a handler around the call would make of it.      *)
raises_Swallowed(r) == ""
raises(r) == IF r.raised THEN "IOError" ELSE ""

(* The operation of the sink that fails, chosen when the sink is opened.   *)
SinkFaults == {0, 1, 4}

----------------------------------------------------------------------------
(* Inputs.                                                                 *)

VirtualAddresses == {0, 2}
RawSizes == {0, 2, SectionMax + 1}
RawPointers == {0, 1, OffsetMax + 1}
HeaderSizes == {0, 2, HeaderMax + 1}
ImageBases == {0, 1}

SectionRecords ==
    [VirtualAddress : VirtualAddresses, SizeOfRawData : RawSizes,
     PointerToRawData : RawPointers]

NTHeaders ==
    [SizeOfHeaders : HeaderSizes, Sections : SeqUpTo(SectionRecords, MaxSections)]

ValidSets == {0..7, {1, 2, 4}, {}}

(* ProcExeDump.check_dump_dir: "" when it returns, else the exception.     *)
(* check_dump_dir_Never: a check that accepts every directory.             *)
check_dump_dir_Never(dump_dir) == ""
check_dump_dir(dump_dir) ==
    IF ~dump_dir.given THEN "PluginError"
    ELSE IF ~dump_dir.isdir THEN "PluginError"
    ELSE ""

DumpDirs == {[given |-> TRUE, isdir |-> TRUE], [given |-> FALSE, isdir |-> FALSE],
             [given |-> TRUE, isdir |-> FALSE]}

Idle ==
    /\ error = ""
    /\ idx = 1
    /\ midx = 1
    /\ outfd = <<>>
    /\ files = <<>>
    /\ last = NoCall
    /\ dumped = <<>>
    /\ address_spaces = [built |-> FALSE, list |-> <<>>]
    /\ finds = <<>>
    /\ emitted = <<>>

----------------------------------------------------------------------------
(* PEDump: one image, into the sink the caller gave.                       *)

InitPEDump ==
    /\ plugin = "pedump"
    /\ \E nt \in NTHeaders, v \in ValidSets, b \in ImageBases :
          input = [address_space |-> [id |-> 1, none |-> FALSE, valid |-> v, pe |-> (b :> nt)],
                   image_base |-> b]
    /\ \E bad \in SinkFaults : fd = NewFile(bad)
    /\ pc = "start"
    /\ Idle

PEDump_render ==
    /\ plugin = "pedump"
    /\ pc = "start"
    /\ LET r == WritePEFile(fd, input.address_space, input.image_base)
       IN /\ fd' = r.fd
          /\ last' = CallRecord(fd, input.address_space, input.image_base, r)
          /\ dumped' = Append(dumped, <<1, 0>>)
          /\ error' = raises(r)
          /\ pc' = IF error' # "" THEN "raised" ELSE "done"
          /\ outfd' = IF error' # "" THEN <<Line("DumpingPE", 1, 0)>>
                      ELSE <<Line("DumpingPE", 1, 0), Line("Done", 1, 0)>>
    /\ UNCHANGED <<plugin, input, idx, midx, files, address_spaces, finds, emitted>>

----------------------------------------------------------------------------
(* The processes, modules and drivers the render loops are given.          *)

(* What the PE profile decodes at the two image bases when they are        *)
(* mapped; an unmapped base decodes to a header of zeros.                  *)
ImageTable ==
    (0 :> [SizeOfHeaders |-> 2,
           Sections |-> <<[VirtualAddress |-> 2, SizeOfRawData |-> 2, PointerToRawData |-> 4],
                          [VirtualAddress |-> 4, SizeOfRawData |-> 2, PointerToRawData |-> 1]>>])
    @@ (1 :> [SizeOfHeaders |-> 1, Sections |-> <<>>])

ZeroHeader == [SizeOfHeaders |-> 0, Sections |-> <<>>]

Space(id, valid) ==
    [id |-> id, none |-> FALSE, valid |-> valid,
     pe |-> [b \in ImageBases |-> IF b \in valid THEN ImageTable[b] ELSE ZeroHeader]]

(* task.get_process_address_space() when the process has none: a          *)
(* NoneObject, false in a condition, whose every method answers false.     *)
NoneObject == [id |-> 0, none |-> TRUE, valid |-> {}, pe |-> [b \in ImageBases |-> ZeroHeader]]

ProcessSpaces == {Space(1, 0..7), Space(2, {1, 2, 4})}
KernelSpaces == {Space(3, 0..7), Space(3, {})}

Module(name, base) == [BaseDllName |-> name, DllBase |-> base]

ModuleLists ==
    { <<>>,
      <<Module("evil.dll", 1)>>,
      <<Module("ntdll.dll", 0), Module("evil.dll", 1)>>,
      <<Module("evil.dll", 0), Module("ntdll.dll", 1)>>,
      <<Module("kernel32.dll", 0), Module("ntdll.dll", 1), Module("evil.dll", 0)>> }

(* A compiled regex, as the set of names regex.search accepts: ".+" and    *)
(* ".*evil.*".                                                             *)
Regexes == {{"kernel32.dll", "ntdll.dll", "evil.dll"}, {"evil.dll"}}

(* regex_search_Always: a pattern test that accepts every name.            *)
regex_search_Always(regex, name) == TRUE
regex_search(regex, name) == name \in regex

FileName(kind, a, b, c) == <<kind, a, b, c>>

(* The loop of every render is over, render returns.                       *)
LoopLength ==
    CASE plugin = "procdump" -> Len(input.tasks)
      [] plugin = "dlldump" -> Len(input.tasks)
      [] plugin = "moddump" -> Len(input.modules)
      [] OTHER -> 0

render_return ==
    /\ plugin \in {"procdump", "dlldump", "moddump"}
    /\ pc = "loop"
    /\ idx > LoopLength
    /\ pc' = "done"
    /\ UNCHANGED <<plugin, input, error, idx, midx, outfd, fd, files, last, dumped,
                   address_spaces, finds, emitted>>

----------------------------------------------------------------------------
(* ProcExeDump.render: one action is one iteration of the loop over        *)
(* filter_processes().                                                     *)

ProcTasks == [as : ProcessSpaces \cup {NoneObject}, ImageBaseAddress : ImageBases]

InitProcExeDump ==
    /\ plugin = "procdump"
    /\ \E d \in DumpDirs, h \in BOOLEAN, ts \in SeqUpTo(ProcTasks, MaxTasks) :
          input = [dump_dir |-> d, has_fd |-> h, tasks |-> ts]
    /\ \E bad \in SinkFaults : fd = NewFile(IF input.has_fd THEN bad ELSE 0)
    /\ pc = "loop"
    /\ Idle

ProcExeDump_render ==
    /\ plugin = "procdump"
    /\ pc = "loop"
    /\ idx <= Len(input.tasks)
    /\ LET task == input.tasks[idx]
           pid == idx
           task_address_space == task.as
       IN IF task_address_space.none
          THEN /\ outfd' = Append(outfd, Line("Skip", idx, 0))
               /\ idx' = idx + 1
               /\ UNCHANGED <<pc, error, fd, files, last, dumped>>
          ELSE IF input.has_fd
          THEN LET r == WritePEFile(fd, task_address_space, task.ImageBaseAddress)
               IN /\ fd' = r.fd
                  /\ last' = CallRecord(fd, task_address_space, task.ImageBaseAddress, r)
                  /\ dumped' = Append(dumped, <<idx, 0>>)
                  /\ error' = raises(r)
                  /\ IF error' # ""
                     THEN pc' = "raised" /\ UNCHANGED <<outfd, idx>>
                     ELSE /\ outfd' = outfd \o <<Line("Stars", idx, 0), Line("Dumping", idx, 0)>>
                          /\ idx' = idx + 1
                          /\ pc' = pc
                  /\ UNCHANGED files
          ELSE IF check_dump_dir(input.dump_dir) # ""
          THEN /\ error' = check_dump_dir(input.dump_dir)
               /\ pc' = "raised"
               /\ UNCHANGED <<idx, outfd, fd, files, last, dumped>>
          ELSE \E bad \in SinkFaults :
               LET filename == FileName("executable", pid, 0, 0)
                   r == WritePEFile(NewFile(bad), task_address_space, task.ImageBaseAddress)
               IN /\ outfd' = outfd \o <<Line("Stars", idx, 0), Line("Dumping", idx, 0)>>
                  /\ files' = (filename :> r.fd) @@ files
                  /\ last' = CallRecord(NewFile(bad), task_address_space,
                                        task.ImageBaseAddress, r)
                  /\ dumped' = Append(dumped, <<idx, 0>>)
                  /\ error' = raises(r)
                  /\ pc' = IF error' # "" THEN "raised" ELSE pc
                  /\ idx' = IF error' # "" THEN idx ELSE idx + 1
                  /\ UNCHANGED fd
    /\ UNCHANGED <<plugin, input, midx, address_spaces, finds, emitted>>

----------------------------------------------------------------------------
(* DLLDump.render: the directory check, then one action for every          *)
(* iteration of the loop over a task's modules.                            *)

vtop(task) == task.process_offset

DllTasks ==
    [as : ProcessSpaces, process_offset : {5}, modules : ModuleLists]
    \cup [as : {NoneObject}, process_offset : {0}, modules : ModuleLists]
    \cup [as : {Space(1, 0..7)}, process_offset : {0}, modules : ModuleLists]

InitDLLDump ==
    /\ plugin = "dlldump"
    /\ \E d \in DumpDirs, re \in Regexes, ts \in SeqUpTo(DllTasks, MaxTasks) :
          input = [dump_dir |-> d, regex |-> re, tasks |-> ts]
    /\ fd = NewFile(0)
    /\ pc = "start"
    /\ Idle

DLLDump_render_check ==
    /\ plugin = "dlldump"
    /\ pc = "start"
    /\ error' = check_dump_dir(input.dump_dir)
    /\ pc' = IF error' # "" THEN "raised" ELSE "loop"
    /\ UNCHANGED <<plugin, input, idx, midx, outfd, fd, files, last, dumped,
                   address_spaces, finds, emitted>>

DLLDump_next_task ==
    /\ plugin = "dlldump"
    /\ pc = "loop"
    /\ idx <= Len(input.tasks)
    /\ midx > Len(input.tasks[idx].modules)
    /\ idx' = idx + 1
    /\ midx' = 1
    /\ UNCHANGED <<plugin, input, pc, error, outfd, fd, files, last, dumped,
                   address_spaces, finds, emitted>>

DLLDump_render ==
    /\ plugin = "dlldump"
    /\ pc = "loop"
    /\ idx <= Len(input.tasks)
    /\ midx <= Len(input.tasks[idx].modules)
    /\ LET task == input.tasks[idx]
           task_as == task.as
           module == task.modules[midx]
           process_offset == vtop(task)
       IN IF process_offset # 0
          THEN IF ~regex_search(input.regex, module.BaseDllName)
               THEN /\ midx' = midx + 1
                    /\ UNCHANGED <<pc, error, outfd, files, last, dumped>>
               ELSE \E bad \in SinkFaults :
                    LET dump_file == FileName("module", idx, process_offset, module.DllBase)
                        r == WritePEFile(NewFile(bad), task_as, module.DllBase)
                    IN /\ outfd' = Append(outfd, Line("Dumping", idx, midx))
                       /\ files' = (dump_file :> r.fd) @@ files
                       /\ last' = CallRecord(NewFile(bad), task_as, module.DllBase, r)
                       /\ dumped' = Append(dumped, <<idx, midx>>)
                       /\ error' = raises(r)
                       /\ pc' = IF error' # "" THEN "raised" ELSE pc
                       /\ midx' = IF error' # "" THEN midx ELSE midx + 1
          ELSE \* line 248 names `proc`, which nothing defines: the arguments of
               \* format() raise NameError before outfd.write is called.
               /\ error' = "NameError"
               /\ pc' = "raised"
               /\ UNCHANGED <<midx, outfd, files, last, dumped>>
    /\ UNCHANGED <<plugin, input, idx, fd, address_spaces, finds, emitted>>

----------------------------------------------------------------------------
(* ModDump: find_space, and render's loop over lsmod().                    *)

RECURSIVE SearchFrom(_, _, _)
SearchFrom(list, image_base, k) ==
    IF k > Len(list) THEN NoneObject
    ELSE IF is_valid_address(list[k], image_base) THEN list[k]
    ELSE SearchFrom(list, image_base, k + 1)

(* The list find_space builds: the kernel address space, then every        *)
(* process's.                                                              *)
BuildSpaces(kernel_address_space, tasks) ==
    [built |-> TRUE,
     list |-> <<kernel_address_space>> \o [k \in 1..Len(tasks) |-> tasks[k].as]]

(* find_space(image_base).  The list is built when self.processes is None. *)
(* Nothing in this file defines or assigns self.processes: it is None or   *)
(* not None as a base class left it, or absent, and then reading it raises *)
(* AttributeError.  A list that was never built is None, and the for loop  *)
(* over it raises TypeError.  The result NoneObject stands for the None    *)
(* that falling out of the loop returns.                                   *)
find_space(cache, processes, kernel_address_space, tasks, image_base) ==
    LET build == processes = "None"
        spaces == IF build THEN BuildSpaces(kernel_address_space, tasks) ELSE cache
    IN IF processes = "Absent"
       THEN [address_spaces |-> cache, build |-> FALSE, result |-> NoneObject,
             error |-> "AttributeError"]
       ELSE IF ~spaces.built
       THEN [address_spaces |-> spaces, build |-> build, result |-> NoneObject,
             error |-> "TypeError"]
       ELSE [address_spaces |-> spaces, build |-> build,
             result |-> SearchFrom(spaces.list, image_base, 1), error |-> ""]

FindRecord(target, image_base, before, f) ==
    [target |-> target, image_base |-> image_base, before |-> before, build |-> f.build,
     searched |-> f.address_spaces, result |-> f.result, error |-> f.error]

ModTasks == [as : ProcessSpaces \cup {NoneObject}]

InitModDump ==
    /\ plugin = "moddump"
    /\ \E d \in DumpDirs, re \in Regexes, k \in KernelSpaces, p \in {"None", "NotNone", "Absent"},
          ts \in SeqUpTo(ModTasks, MaxTasks), ms \in ModuleLists :
          input = [dump_dir |-> d, regex |-> re, kernel_address_space |-> k,
                   processes |-> p, tasks |-> ts, modules |-> ms]
    /\ fd = NewFile(0)
    /\ pc = "start"
    /\ Idle

ModDump_render_check ==
    /\ plugin = "moddump"
    /\ pc = "start"
    /\ error' = check_dump_dir(input.dump_dir)
    /\ pc' = IF error' # "" THEN "raised" ELSE "loop"
    /\ UNCHANGED <<plugin, input, idx, midx, outfd, fd, files, last, dumped,
                   address_spaces, finds, emitted>>

ModDump_render ==
    /\ plugin = "moddump"
    /\ pc = "loop"
    /\ idx <= Len(input.modules)
    /\ LET module == input.modules[idx]
       IN IF ~regex_search(input.regex, module.BaseDllName)
          THEN /\ idx' = idx + 1
               /\ UNCHANGED <<pc, error, outfd, files, last, dumped, address_spaces, finds>>
          ELSE LET f == find_space(address_spaces, input.processes,
                                   input.kernel_address_space, input.tasks, module.DllBase)
                   address_space == f.result
               IN /\ address_spaces' = f.address_spaces
                  /\ finds' = Append(finds, FindRecord(idx, module.DllBase, address_spaces, f))
                  /\ IF f.error # ""
                     THEN /\ error' = f.error
                          /\ pc' = "raised"
                          /\ UNCHANGED <<idx, outfd, files, last, dumped>>
                     ELSE IF address_space.none
                     THEN /\ idx' = idx + 1
                          /\ UNCHANGED <<pc, error, outfd, files, last, dumped>>
                     ELSE \E bad \in SinkFaults :
                          LET dump_file == FileName("driver", module.DllBase, 0, 0)
                              r == WritePEFile(NewFile(bad), address_space, module.DllBase)
                          IN /\ outfd' = Append(outfd, Line("Dumping", idx, 0))
                             /\ files' = (dump_file :> r.fd) @@ files
                             /\ last' = CallRecord(NewFile(bad), address_space,
                                                   module.DllBase, r)
                             /\ dumped' = Append(dumped, <<idx, 0>>)
                             /\ error' = raises(r)
                             /\ pc' = IF error' # "" THEN "raised" ELSE pc
                             /\ idx' = IF error' # "" THEN idx ELSE idx + 1
    /\ UNCHANGED <<plugin, input, midx, fd, emitted>>

----------------------------------------------------------------------------
(* ProcMemDump: replace_header_field and the generator get_image.          *)

(* _IMAGE_SECTION_HEADER: its size, and the offset of each 4-byte          *)
(* little-endian field get_image patches.                                  *)
SectionHeaderSize == 40
FieldSize == 4
VirtualSizeOffset == 8
VirtualAddressOffset == 12
SizeOfRawDataOffset == 16
PointerToRawDataOffset == 20

Pow256(k) == IF k = 0 THEN 1 ELSE IF k = 1 THEN 256 ELSE IF k = 2 THEN 65536 ELSE 16777216

(* struct.pack("<I", value): the bytes, least significant first; of a      *)
(* negative value, the bytes of its two's complement.                      *)
pack(value) == [k \in 1..FieldSize |-> (value \div Pow256(k - 1)) % 256]

(* The values struct.pack("<I", ...) takes; the model holds no value of    *)
(* 2^31 or more.                                                           *)
packable(value) == value >= 0

(* replace_header_field(sect, header, item, value), with start the offset  *)
(* of item in the section header; replace_header_field_Append adds the     *)
(* packed value at the end instead of splicing it in.                      *)
replace_header_field_Append(start, header, value) == header \o pack(value)
replace_header_field(start, header, value) ==
    LET end == start + FieldSize
        newval == pack(value)
    IN SubSeq(header, 1, start) \o newval \o SubSeq(header, end + 1, Len(header))

(* self.round(value, alignment, up = True)                                 *)
round_up(value, alignment) == ((value + alignment - 1) \div alignment) * alignment

(* The sizes get_image computes; sect_sizes_Declared keeps the declared    *)
(* VirtualSize instead.                                                    *)
sect_sizes_Declared(sections, sa) == [k \in 1..Len(sections) |-> sections[k].VirtualSize]
sect_sizes(sections, sa) ==
    [k \in 1..Len(sections) |->
        IF k < Len(sections)
        THEN sections[k + 1].VirtualAddress - sections[k].VirtualAddress
        ELSE round_up(sections[k].VirtualSize, sa)]

(* addr_space.read(sect.obj_offset, shs): the section header as it is in   *)
(* memory.                                                                 *)
sectheader(sect) ==
    [k \in 1..8 |-> 64 + k] \o pack(sect.VirtualSize) \o pack(sect.VirtualAddress)
    \o pack(sect.SizeOfRawData) \o pack(sect.PointerToRawData) \o [k \in 1..16 |-> 200 + k]

start_addr(nt_header, base_addr) ==
    nt_header.SizeOfOptionalHeader + (nt_header.OptionalHeaderOffset - base_addr)

MemSections ==
    [VirtualAddress : {4096, 8192, 12288}, VirtualSize : {16, 4660},
     SizeOfRawData : {512}, PointerToRawData : {1024}]

InitProcMemDump ==
    /\ plugin = "procmemdump"
    /\ \E ss \in SeqUpTo(MemSections, MaxSections), sa \in {512, 4096}, b \in {0, 4194304} :
          input = [base_addr |-> b,
                   nt_header |-> [SectionAlignment |-> sa, SizeOfOptionalHeader |-> 224,
                                  OptionalHeaderOffset |-> b + 152, Sections |-> ss]]
    /\ fd = NewFile(0)
    /\ pc = "start"
    /\ Idle

(* The first next(): the image itself, at offset 0.                        *)
get_image_code ==
    /\ plugin = "procmemdump"
    /\ pc = "start"
    /\ emitted' = <<[offset |-> 0, data |-> <<>>]>>
    /\ pc' = "loop"
    /\ UNCHANGED <<plugin, input, error, idx, midx, outfd, fd, files, last, dumped,
                   address_spaces, finds>>

(* A later next(): the patched header of section idx, or struct.error.     *)
(* A value struct.pack does not take raises (Python 2.7) or is masked to   *)
(* 32 bits with a DeprecationWarning (Python 2.6).                         *)
get_image_section ==
    /\ plugin = "procmemdump"
    /\ pc = "loop"
    /\ idx <= Len(input.nt_header.Sections)
    /\ LET nt_header == input.nt_header
           sect == nt_header.Sections[idx]
           sizes == sect_sizes(nt_header.Sections, nt_header.SectionAlignment)
           counter == idx - 1
           h0 == sectheader(sect)
           h1 == replace_header_field(PointerToRawDataOffset, h0, sect.VirtualAddress)
           h2 == replace_header_field(SizeOfRawDataOffset, h1, sizes[counter + 1])
           h3 == replace_header_field(VirtualSizeOffset, h2, sizes[counter + 1])
           yield == /\ emitted' = Append(emitted,
                           [offset |-> start_addr(nt_header, input.base_addr)
                                       + counter * SectionHeaderSize,
                            data |-> h3])
                    /\ idx' = idx + 1
                    /\ UNCHANGED <<pc, error>>
       IN \/ /\ packable(sect.VirtualAddress) /\ packable(sizes[counter + 1])
             /\ yield
          \/ /\ ~(packable(sect.VirtualAddress) /\ packable(sizes[counter + 1]))
             /\ \/ yield
                \/ /\ error' = "struct.error"
                   /\ pc' = "raised"
                   /\ UNCHANGED <<emitted, idx>>
    /\ UNCHANGED <<plugin, input, midx, outfd, fd, files, last, dumped,
                   address_spaces, finds>>

(* The last next(): the generator is exhausted.                            *)
get_image_stop ==
    /\ plugin = "procmemdump"
    /\ pc = "loop"
    /\ idx > Len(input.nt_header.Sections)
    /\ pc' = "done"
    /\ UNCHANGED <<plugin, input, error, idx, midx, outfd, fd, files, last, dumped,
                   address_spaces, finds, emitted>>

----------------------------------------------------------------------------
Init == InitPEDump \/ InitProcExeDump \/ InitDLLDump \/ InitModDump \/ InitProcMemDump

Next ==
    \/ PEDump_render
    \/ ProcExeDump_render
    \/ DLLDump_render_check
    \/ DLLDump_next_task
    \/ DLLDump_render
    \/ ModDump_render_check
    \/ ModDump_render
    \/ render_return
    \/ get_image_code
    \/ get_image_section
    \/ get_image_stop

Spec == Init /\ [][Next]_vars

----------------------------------------------------------------------------
(* Properties.  Each is stated from the inputs of the run and from what    *)
(* the run has written, not with the operators above.                      *)

ClampTo(maximum, declared) == IF declared > maximum THEN maximum ELSE declared

RenderLoops == {"procdump", "dlldump", "moddump"}

(* The writes of one WritePEFile call c, in order: 0 is the header, i the  *)
(* i-th declared section.                                                  *)
WritesOf(c) ==
    LET nt == c.as.pe[c.base]
    IN [i \in 0..Len(nt.Sections) |->
          IF i = 0
          THEN [off |-> 0, src |-> c.base, len |-> ClampTo(HeaderMax, nt.SizeOfHeaders)]
          ELSE [off |-> ClampTo(OffsetMax, nt.Sections[i].PointerToRawData),
                src |-> c.base + nt.Sections[i].VirtualAddress,
                len |-> ClampTo(SectionMax, nt.Sections[i].SizeOfRawData)]]

Covering(c, p) ==
    {i \in DOMAIN WritesOf(c) : WritesOf(c)[i].off <= p /\ p < WritesOf(c)[i].off + WritesOf(c)[i].len}

(* The byte at position p after the writes of c over a sink that held      *)
(* before: the byte of the last write covering p, read with zero fill.     *)
ByteAfter(c, before, p) ==
    IF Covering(c, p) = {}
    THEN IF p \in DOMAIN before THEN before[p] ELSE 0
    ELSE LET w == WritesOf(c)[SetMax(Covering(c, p))]
             a == w.src + (p - w.off)
         IN IF a \in c.as.valid THEN 16 * c.as.id + a + 1 ELSE 0

ContentAfter(c, before) ==
    LET cand == DOMAIN before \cup
                UNION {{WritesOf(c)[i].off + (a - WritesOf(c)[i].src) :
                          a \in {x \in c.as.valid : x >= WritesOf(c)[i].src}} :
                       i \in DOMAIN WritesOf(c)}
    IN [p \in {q \in cand : ByteAfter(c, before, q) # 0} |-> ByteAfter(c, before, p)]

Completed(c) == c.called /\ ~c.r.raised /\ WritesOf(c)[0].len > 0

(* C1, as claimed: after a WritePEFile call whose header read is not empty *)
(* the sink holds the header and the sections, written in declared order   *)
(* over an all-zero sink: the last write covering a position wins, and a   *)
(* position no write covers is zero.                                       *)
C1_OverZeroSink ==
    Completed(last) => last.r.fd.nz = ContentAfter(last, EmptyMap)

(* C1, amended: the same writes, over what the sink held before the call:  *)
(* a position no write covers keeps its byte, which is zero when the sink  *)
(* was new.                                                                *)
C1_OverPreviousContent ==
    Completed(last) => last.r.fd.nz = ContentAfter(last, last.fd0.nz)

C1_Witness ==
    /\ Completed(last)
    /\ \E p \in DOMAIN last.r.fd.nz : Cardinality(Covering(last, p)) >= 2
    /\ \E i \in DOMAIN WritesOf(last) :
          LET p == WritesOf(last)[i].off + WritesOf(last)[i].len
          IN p < last.r.fd.len /\ Covering(last, p) = {}

(* C2: in every WritePEFile call the header read has length                *)
(* min(1,000,000, SizeOfHeaders), and for the i-th section the read has    *)
(* length min(10,000,000, SizeOfRawData) and the seek goes to              *)
(* min(100,000,000, PointerToRawData): a declared value above its maximum  *)
(* is replaced by the maximum.                                             *)
C2_ClampedIO ==
    last.called =>
        LET nt == last.as.pe[last.base]
            calls == last.r.calls
        IN /\ calls[1].op = "zread"
           /\ calls[1].n = ClampTo(HeaderMax, nt.SizeOfHeaders)
           /\ calls[1].n <= HeaderMax
           /\ \A i \in 1..Len(nt.Sections) :
                 /\ 3 * i + 1 \in DOMAIN calls =>
                       /\ calls[3 * i + 1].op = "zread"
                       /\ calls[3 * i + 1].n = ClampTo(SectionMax, nt.Sections[i].SizeOfRawData)
                       /\ calls[3 * i + 1].n <= SectionMax
                 /\ 3 * i + 2 \in DOMAIN calls =>
                       /\ calls[3 * i + 2].op = "seek"
                       /\ calls[3 * i + 2].a = ClampTo(OffsetMax, nt.Sections[i].PointerToRawData)
                       /\ calls[3 * i + 2].a <= OffsetMax
                 /\ 3 * i + 3 \in DOMAIN calls =>
                       /\ calls[3 * i + 3].op = "write"
                       /\ calls[3 * i + 3].a = ClampTo(OffsetMax, nt.Sections[i].PointerToRawData)
                       /\ calls[3 * i + 3].n = ClampTo(SectionMax, nt.Sections[i].SizeOfRawData)

C2_Witness ==
    /\ last.called
    /\ ~last.r.raised
    /\ last.as.pe[last.base].SizeOfHeaders > HeaderMax
    /\ \E i \in 1..Len(last.as.pe[last.base].Sections) :
          /\ last.as.pe[last.base].Sections[i].SizeOfRawData > SectionMax
          /\ last.as.pe[last.base].Sections[i].PointerToRawData > OffsetMax
          /\ last.r.calls[3 * i + 1].n = SectionMax
          /\ last.r.calls[3 * i + 2].a = OffsetMax

(* C3: when the header read of a WritePEFile call yields zero bytes, the   *)
(* call returns without raising and the sink gets no seek and no write,    *)
(* whatever the section table declares and even if the sink would fail.    *)
C3_EmptyHeaderNoOutput ==
    (last.called /\ ClampTo(HeaderMax, last.as.pe[last.base].SizeOfHeaders) = 0) =>
        /\ ~last.r.raised
        /\ last.r.fd = last.fd0
        /\ \A k \in DOMAIN last.r.calls : last.r.calls[k].op \notin {"seek", "write"}

C3_Witness ==
    /\ last.called
    /\ last.as.pe[last.base].SizeOfHeaders = 0
    /\ Len(last.as.pe[last.base].Sections) >= 1
    /\ last.as.pe[last.base].Sections[1].SizeOfRawData > 0
    /\ last.fd0.bad = 1
    /\ pc = "done"

----------------------------------------------------------------------------
(* DLLDump                                                                 *)

TranslationFails(t) == input.tasks[t].process_offset = 0
NameMatches(t, m) == input.tasks[t].modules[m].BaseDllName \in input.regex
Iterated(t, m) == t < idx \/ (t = idx /\ m < midx)

(* C4, as claimed: in DLLDump.render a module whose process's vtop fails   *)
(* gets a diagnostic line and no artifact, nothing is raised, and the run  *)
(* goes on: at its end every matching module of a process whose vtop       *)
(* succeeded has been reconstructed.                                       *)
C4_TranslationFailureSkipped ==
    plugin = "dlldump" =>
        /\ error # "NameError"
        /\ \A t \in DOMAIN input.tasks : \A m \in DOMAIN input.tasks[t].modules :
              /\ (TranslationFails(t) /\ Iterated(t, m)) =>
                    /\ Line("CannotDump", t, m) \in Range(outfd)
                    /\ <<t, m>> \notin Range(dumped)
              /\ (pc = "done" /\ ~TranslationFails(t) /\ NameMatches(t, m)) =>
                    <<t, m>> \in Range(dumped)

(* C8: in DLLDump.render every diagnostic line and every reconstruction is *)
(* for a module whose name matches the pattern; a module that does not     *)
(* match gets no line and no artifact, whether vtop succeeds or not.       *)
C8_FilteredSilently ==
    plugin = "dlldump" =>
        /\ \A k \in DOMAIN outfd :
              /\ outfd[k].t \in DOMAIN input.tasks
              /\ outfd[k].m \in DOMAIN input.tasks[outfd[k].t].modules
              /\ NameMatches(outfd[k].t, outfd[k].m)
        /\ \A k \in DOMAIN dumped :
              /\ dumped[k][1] \in DOMAIN input.tasks
              /\ dumped[k][2] \in DOMAIN input.tasks[dumped[k][1]].modules
              /\ NameMatches(dumped[k][1], dumped[k][2])
        /\ Cardinality(DOMAIN files) <= Len(dumped)

C8_Witness ==
    /\ plugin = "dlldump"
    /\ pc = "done"
    /\ dumped # <<>>
    /\ \E t \in DOMAIN input.tasks : \E m \in DOMAIN input.tasks[t].modules :
          ~NameMatches(t, m) /\ ~TranslationFails(t)

----------------------------------------------------------------------------
(* Failures of the sink, and of the dump directory.                        *)

SinkFailed == last.called /\ last.r.raised

(* C5, as claimed: a seek or write of the sink that fails for one target   *)
(* does not abort the run of ProcExeDump, DLLDump or ModDump.              *)
C5_FailureConfined ==
    (plugin \in RenderLoops /\ SinkFailed) => pc # "raised"

(* C5, amended: the failure leaves render at that target: the run ends     *)
(* with the sink's error, and nothing is written or reconstructed for a    *)
(* later target.                                                           *)
C5_FailureAborts ==
    (plugin \in RenderLoops /\ SinkFailed) =>
        /\ pc = "raised"
        /\ error = "IOError"
        /\ idx <= LoopLength
        /\ dumped[Len(dumped)][1] = idx
        /\ \A k \in DOMAIN dumped : dumped[k][1] <= idx
        /\ \A k \in DOMAIN outfd : outfd[k].t <= idx
        /\ plugin = "dlldump" =>
              /\ dumped[Len(dumped)][2] = midx
              /\ \A k \in DOMAIN outfd : outfd[k].t = idx => outfd[k].m <= midx

C5_Witness ==
    /\ plugin = "moddump"
    /\ SinkFailed
    /\ idx < LoopLength
    /\ input.modules[idx + 1].BaseDllName \in input.regex
    /\ input.modules[idx + 1].DllBase \in input.kernel_address_space.valid

BadDumpDir == ~input.dump_dir.given \/ ~input.dump_dir.isdir

NothingProcessed ==
    /\ outfd = <<>>
    /\ dumped = <<>>
    /\ files = <<>>
    /\ finds = <<>>
    /\ idx = 1
    /\ midx = 1
    /\ pc = "raised" => error = "PluginError"

(* C6, as claimed: with the dump directory missing or not a directory,     *)
(* ProcExeDump, DLLDump and ModDump raise the configuration error before   *)
(* any target is processed and before any diagnostic line.  (A run of      *)
(* ProcExeDump with a sink of the caller's has an output destination.)     *)
C6_CheckedFirst ==
    (/\ plugin \in RenderLoops
     /\ BadDumpDir
     /\ ~(plugin = "procdump" /\ input.has_fd)) => NothingProcessed

(* C6, amended: DLLDump and ModDump do; ProcExeDump checks the directory   *)
(* when it is about to create a target's file, so it raises the error at   *)
(* the first process that has an address space, after the skip lines of    *)
(* the processes before it, and still reconstructs no target; with a sink  *)
(* of the caller's it never checks the directory.                          *)
C6_CheckedBeforeFirstFile ==
    /\ (plugin \in {"dlldump", "moddump"} /\ BadDumpDir) =>
          /\ NothingProcessed
          /\ pc \in {"start", "raised"}
    /\ (plugin = "procdump" /\ BadDumpDir /\ ~input.has_fd) =>
          /\ dumped = <<>>
          /\ files = <<>>
          /\ \A k \in DOMAIN outfd :
                outfd[k].kind = "Skip" /\ input.tasks[outfd[k].t].as.none
          /\ \A t \in 1..(idx - 1) : input.tasks[t].as.none
          /\ pc = "raised" => (error = "PluginError" /\ ~input.tasks[idx].as.none)
          /\ pc = "done" => idx = Len(input.tasks) + 1
    /\ (plugin = "procdump" /\ input.has_fd) => error # "PluginError"

C6_Witness ==
    /\ plugin = "procdump"
    /\ BadDumpDir
    /\ ~input.has_fd
    /\ pc = "raised"
    /\ outfd # <<>>

----------------------------------------------------------------------------
(* ModDump.find_space                                                      *)

Candidates == <<input.kernel_address_space>> \o [k \in 1..Len(input.tasks) |-> input.tasks[k].as]
ValidIn(image_base) == {j \in DOMAIN Candidates : image_base \in Candidates[j].valid}

(* C7, as claimed: every find_space call returns the first of the kernel   *)
(* address space and the process address spaces, in that order, that       *)
(* reports the base valid; when none does it returns no address space and  *)
(* the driver is not reconstructed.                                        *)
C7_FirstValidSpace ==
    plugin = "moddump" =>
        \A k \in DOMAIN finds :
            /\ finds[k].error = ""
            /\ ValidIn(finds[k].image_base) = {} =>
                  /\ finds[k].result.none
                  /\ <<finds[k].target, 0>> \notin Range(dumped)
            /\ ValidIn(finds[k].image_base) # {} =>
                  \E j \in ValidIn(finds[k].image_base) :
                      /\ \A i \in ValidIn(finds[k].image_base) : j <= i
                      /\ finds[k].result = Candidates[j]

(* C10, as claimed: the first find_space call of a run builds the          *)
(* candidate list, no later call builds it again, and every call searches  *)
(* that list, never an absent one.                                         *)
C10_BuiltOnce ==
    plugin = "moddump" =>
        \A k \in DOMAIN finds :
            /\ finds[k].build <=> k = 1
            /\ finds[k].searched = [built |-> TRUE, list |-> Candidates]
            /\ finds[k].error = ""

----------------------------------------------------------------------------
(* ProcMemDump.get_image                                                   *)

Unpack(b) == b[1] + 256 * b[2] + 65536 * b[3] + 16777216 * b[4]
FieldOf(header, offset) == SubSeq(header, offset + 1, offset + 4)

SizeAsClaimed(sections, sa, i) ==
    IF i < Len(sections)
    THEN sections[i + 1].VirtualAddress - sections[i].VirtualAddress
    ELSE IF sections[i].VirtualSize % sa = 0
         THEN sections[i].VirtualSize
         ELSE sections[i].VirtualSize + sa - (sections[i].VirtualSize % sa)

PatchedAsClaimed(i) ==
    LET nt == input.nt_header
        sect == nt.Sections[i]
        size == SizeAsClaimed(nt.Sections, nt.SectionAlignment, i)
        original == sectheader(sect)
        e == emitted[i + 1]
        patched == (9..12) \cup (17..24)
    IN /\ e.offset = nt.SizeOfOptionalHeader + (nt.OptionalHeaderOffset - input.base_addr)
                     + (i - 1) * 40
       /\ Len(e.data) = Len(original)
       /\ size >= 0
       /\ Unpack(FieldOf(e.data, 20)) = sect.VirtualAddress
       /\ Unpack(FieldOf(e.data, 16)) = size
       /\ Unpack(FieldOf(e.data, 8)) = size
       /\ \A k \in DOMAIN original : k \notin patched => e.data[k] = original[k]

AllPatchedAsClaimed ==
    /\ error = ""
    /\ \A i \in 1..(Len(emitted) - 1) : PatchedAsClaimed(i)
    /\ pc = "done" => Len(emitted) = Len(input.nt_header.Sections) + 1

(* C9, as claimed: for every section table get_image emits, for section i  *)
(* (from 0), at start_addr + i * 40, the section header with               *)
(* PointerToRawData set to the VirtualAddress and SizeOfRawData and        *)
(* VirtualSize set to the distance to the next section's VirtualAddress    *)
(* (for the last section, its VirtualSize rounded up to SectionAlignment), *)
(* every other byte and the length unchanged.                              *)
C9_HeadersPatched ==
    plugin = "procmemdump" => AllPatchedAsClaimed

NonDecreasing(sections) ==
    \A i \in 1..(Len(sections) - 1) :
        sections[i].VirtualAddress <= sections[i + 1].VirtualAddress

(* C9, amended: for every section table whose VirtualAddresses do not      *)
(* decrease in declared order.                                             *)
C9_HeadersPatchedInOrder ==
    (plugin = "procmemdump" /\ NonDecreasing(input.nt_header.Sections)) => AllPatchedAsClaimed

C9_Witness ==
    /\ plugin = "procmemdump"
    /\ pc = "done"
    /\ Len(emitted) = 3
    /\ input.nt_header.Sections[1].VirtualAddress < input.nt_header.Sections[2].VirtualAddress
    /\ input.nt_header.Sections[2].VirtualSize % input.nt_header.SectionAlignment # 0
    /\ PatchedAsClaimed(2)
====
